---- MODULE Spec2Model ----
(***************************************************************************)
(* Model of 0x02-redis_basic/exercise.py: the Cache facade over a Redis    *)
(* store, the count_calls and call_history decorators and replay.          *)
(*                                                                         *)
(* Python str values are sequences of code points, bytes values are        *)
(* sequences of 0..255, and every conversion the code performs (str(),     *)
(* repr, UTF-8 encoding and decoding, int parsing, Redis' own value        *)
(* encoding) is computed on those sequences.                               *)
(***************************************************************************)
EXTENDS Integers, Sequences, FiniteSets, TLC

\* ------------------------------------------------------------------ bounds
\* Number of concurrent callers (threads) of the facade.
NumProcs == 2
\* Number of Cache.store invocations begun in one behaviour: of the
\* single-caller program, and of the program with concurrent callers.
MaxCalls == 3
MaxConcCalls == 3
\* Number of Cache() constructions after the initial one in one behaviour.
MaxInits == 1

Procs == 1..NumProcs
\* The names a client holds Cache objects under: `a = Cache()`, `b = Cache()`.
Insts == {"a", "b"}

\* ------------------------------------------------------- Python values
PyStr(s)   == [t |-> "str", v |-> s]
PyBytes(b) == [t |-> "bytes", v |-> b]
PyInt(n)   == [t |-> "int", v |-> n]
PyNone     == [t |-> "None", v |-> <<>>]

\* The values a client passes to store: the text "e-acute" (U+00E9, two bytes
\* in UTF-8), the byte string b'\xff' (not valid UTF-8) and the number 42.
DataValues == { PyStr(<<233>>), PyBytes(<<255>>), PyInt(42) }

\* The ways a client calls store: store(d), with each of the values as the one
\* positional argument.
CallForms == { [args |-> <<d>>, data |-> d] : d \in DataValues }

\* ----------------------------------------------------- text conversions
RECURSIVE Dec(_)
\* str(n) for n >= 0: the decimal digits, as code points.
Dec(n) == IF n < 10 THEN <<48 + n>> ELSE Dec(n \div 10) \o <<48 + (n % 10)>>

\* str(n) / repr(n) of a Python int.
IntStr(n) == IF n < 0 THEN <<45>> \o Dec(0 - n) ELSE Dec(n)

RECURSIVE Utf8Encode(_)
\* s.encode('utf-8') for code points below U+10000.
Utf8Encode(s) ==
    IF s = <<>> THEN <<>>
    ELSE LET c == Head(s)
             b == IF c < 128 THEN <<c>>
                  ELSE IF c < 2048 THEN <<192 + (c \div 64), 128 + (c % 64)>>
                  ELSE <<224 + (c \div 4096), 128 + ((c \div 64) % 64),
                         128 + (c % 64)>>
         IN  b \o Utf8Encode(Tail(s))

IsCont(b) == b >= 128 /\ b < 192

RECURSIVE Utf8Decode(_)
\* b.decode('utf-8'): [ok |-> TRUE, v |-> text], or ok = FALSE where Python
\* raises UnicodeDecodeError (stray continuation byte, truncated or overlong
\* sequence, byte that starts no sequence).
Utf8Decode(b) ==
    IF b = <<>> THEN [ok |-> TRUE, v |-> <<>>]
    ELSE LET c == Head(b)
             n == IF c < 128 THEN 1
                  ELSE IF c >= 194 /\ c < 224 THEN 2
                  ELSE IF c >= 224 /\ c < 240 THEN 3
                  ELSE 0
         IN  IF n = 0 \/ Len(b) < n THEN [ok |-> FALSE, v |-> <<>>]
             ELSE IF \E i \in 2..n : ~IsCont(b[i]) THEN [ok |-> FALSE, v |-> <<>>]
             ELSE LET cp == IF n = 1 THEN c
                            ELSE IF n = 2 THEN (c - 192) * 64 + (b[2] - 128)
                            ELSE (c - 224) * 4096 + (b[2] - 128) * 64
                                 + (b[3] - 128)
                      rest == Utf8Decode(SubSeq(b, n + 1, Len(b)))
                  IN  IF n = 3 /\ (cp < 2048 \/ (cp >= 55296 /\ cp < 57344))
                      THEN [ok |-> FALSE, v |-> <<>>]
                      ELSE IF rest.ok THEN [ok |-> TRUE, v |-> <<cp>> \o rest.v]
                      ELSE rest

Hex(d) == IF d < 10 THEN 48 + d ELSE 87 + d

\* The quote repr chooses: " when the text holds ' and no ", else '.
Quote(s) ==
    IF (\E i \in 1..Len(s) : s[i] = 39) /\ ~(\E i \in 1..Len(s) : s[i] = 34)
    THEN 34 ELSE 39

RECURSIVE EscStr(_, _)
\* The body of repr(str): backslash and the chosen quote escaped, control
\* characters as \xhh, everything else as it is.
EscStr(s, q) ==
    IF s = <<>> THEN <<>>
    ELSE LET c == Head(s)
             e == IF c = 92 THEN <<92, 92>>
                  ELSE IF c = q THEN <<92, c>>
                  ELSE IF c = 10 THEN <<92, 110>>
                  ELSE IF c = 13 THEN <<92, 114>>
                  ELSE IF c = 9 THEN <<92, 116>>
                  ELSE IF c < 32 \/ c = 127 \/ (c >= 128 /\ c < 161)
                       THEN <<92, 120, Hex(c \div 16), Hex(c % 16)>>
                  ELSE <<c>>
         IN  e \o EscStr(Tail(s), q)

RECURSIVE EscBytes(_, _)
\* The body of repr(bytes): printable ASCII as it is, the rest as \xhh.
EscBytes(b, q) ==
    IF b = <<>> THEN <<>>
    ELSE LET c == Head(b)
             e == IF c = 92 THEN <<92, 92>>
                  ELSE IF c = q THEN <<92, c>>
                  ELSE IF c = 10 THEN <<92, 110>>
                  ELSE IF c = 13 THEN <<92, 114>>
                  ELSE IF c = 9 THEN <<92, 116>>
                  ELSE IF c < 32 \/ c >= 127
                       THEN <<92, 120, Hex(c \div 16), Hex(c % 16)>>
                  ELSE <<c>>
         IN  e \o EscBytes(Tail(b), q)

\* repr(x) of a Python value.
Repr(x) ==
    IF x.t = "str" THEN <<Quote(x.v)>> \o EscStr(x.v, Quote(x.v)) \o <<Quote(x.v)>>
    ELSE IF x.t = "bytes"
         THEN <<98, Quote(x.v)>> \o EscBytes(x.v, Quote(x.v)) \o <<Quote(x.v)>>
    ELSE IF x.t = "int" THEN IntStr(x.v)
    ELSE <<78, 111, 110, 101>>

RECURSIVE JoinRepr(_)
JoinRepr(xs) ==
    IF xs = <<>> THEN <<>>
    ELSE IF Len(xs) = 1 THEN Repr(xs[1])
    ELSE Repr(xs[1]) \o <<44, 32>> \o JoinRepr(Tail(xs))

\* str(args) of the positional-argument tuple: "()", "(x,)", "(x, y)".
StrArgs(xs) ==
    IF Len(xs) = 1 THEN <<40>> \o Repr(xs[1]) \o <<44, 41>>
    ELSE <<40>> \o JoinRepr(xs) \o <<41>>

\* str(x) as format() renders a value: text as it is, everything else by repr.
Str(x) == IF x.t = "str" THEN x.v ELSE Repr(x)

IsDigit(c) == c >= 48 /\ c <= 57

RECURSIVE DigitsVal(_, _)
DigitsVal(b, acc) ==
    IF b = <<>> THEN acc ELSE DigitsVal(Tail(b), acc * 10 + (Head(b) - 48))

\* int(b) of a byte string: an optional sign, then decimal digits;
\* ok = FALSE where Python raises ValueError.
ParseInt(b) ==
    LET signed == b # <<>> /\ Head(b) \in {43, 45}
        ds     == IF signed THEN Tail(b) ELSE b
    IN  IF ds = <<>> \/ (\E i \in 1..Len(ds) : ~IsDigit(ds[i]))
        THEN [ok |-> FALSE, v |-> 0]
        ELSE [ok |-> TRUE,
              v  |-> IF signed /\ Head(b) = 45 THEN 0 - DigitsVal(ds, 0)
                     ELSE DigitsVal(ds, 0)]

\* ------------------------------------------------------ the Redis store
\* The database is a function from keys (byte strings) to entries: a string
\* entry holds bytes, a list entry holds a sequence of byte strings.
EmptyDb == [k \in {} |-> 0]

StringEntry(b) == [t |-> "string", v |-> b]
ListEntry(l)   == [t |-> "list", v |-> l]

\* redis-py's encoder for keys and values: bytes as they are, text as UTF-8,
\* numbers by their repr.
Encode(x) ==
    IF x.t = "bytes" THEN x.v
    ELSE IF x.t = "str" THEN Utf8Encode(x.v)
    ELSE Repr(x)

\* A counter that is written instead of incremented: SET key 1.
RedisIncrOverwrites(d, k) ==
    IF k \in DOMAIN d
    THEN [d EXCEPT ![k] = [t |-> "string", v |-> IntStr(1)]]
    ELSE (k :> [t |-> "string", v |-> IntStr(1)]) @@ d

\* INCR key: the integer at key plus one, created at 1 when absent.
RedisIncr(d, k) ==
    IF k \in DOMAIN d
    THEN [d EXCEPT ![k] = StringEntry(IntStr(ParseInt(d[k].v).v + 1))]
    ELSE (k :> StringEntry(IntStr(1))) @@ d

\* A list that is written instead of appended to: the entry replaces the list.
RedisRpushOverwrites(d, k, b) ==
    IF k \in DOMAIN d
    THEN [d EXCEPT ![k] = [t |-> "list", v |-> <<b>>]]
    ELSE (k :> [t |-> "list", v |-> <<b>>]) @@ d

\* RPUSH key value: append to the list at key, created when absent.
RedisRpush(d, k, b) ==
    IF k \in DOMAIN d
    THEN [d EXCEPT ![k] = ListEntry(Append(d[k].v, b))]
    ELSE (k :> ListEntry(<<b>>)) @@ d

\* SET key value: store, overwriting what is there.
RedisSet(d, k, b) ==
    IF k \in DOMAIN d
    THEN [d EXCEPT ![k] = StringEntry(b)]
    ELSE (k :> StringEntry(b)) @@ d

\* GET key: the bytes at key, None when absent.
RedisGet(d, k) == IF k \in DOMAIN d THEN PyBytes(d[k].v) ELSE PyNone

\* An existence test that never finds the key.
RedisExistsNever(d, k) == 0

\* EXISTS key: the number of the given keys that exist.
RedisExists(d, k) == IF k \in DOMAIN d THEN 1 ELSE 0

\* LRANGE key start end: the slice of the list, both ends inclusive, negative
\* indices counting from the end; empty when the key is absent.
RedisLrange(d, k, start, end) ==
    IF k \notin DOMAIN d THEN <<>>
    ELSE LET l == d[k].v
             n == Len(l)
             s == IF start < 0 THEN (IF n + start < 0 THEN 0 ELSE n + start)
                  ELSE start
             e == IF end < 0 THEN n + end ELSE (IF end > n - 1 THEN n - 1 ELSE end)
         IN  SubSeq(l, s + 1, e + 1)

\* A flush that deletes the string entries and keeps the lists.
RedisFlushdbKeepsLists(d) ==
    [k \in {x \in DOMAIN d : d[x].t = "list"} |-> d[k]]

\* FLUSHDB: every key gone.
RedisFlushdb(d) == EmptyDb

\* ------------------------------------------------------------ identities
\* method.__qualname__ of the methods of Cache: "Cache.store", "Cache.get".
QualName(m) ==
    IF m = "store" THEN <<67, 97, 99, 104, 101, 46, 115, 116, 111, 114, 101>>
    ELSE <<67, 97, 99, 104, 101, 46, 103, 101, 116>>

\* '{}:inputs'.format(name) and '{}:outputs'.format(name).
InputKey(name)  == name \o <<58, 105, 110, 112, 117, 116, 115>>
OutputKey(name) == name \o <<58, 111, 117, 116, 112, 117, 116, 115>>

\* A key that is the same on every draw.
UuidStrFixed(n) == <<117, 48>>

\* str(uuid.uuid4()): the n-th identifier drawn is a text no other draw gives.
UuidStr(n) == <<117>> \o Dec(n)

\* ------------------------------------------------------------------ state
VARIABLES
    inst,        \* inst[i]: what self._redis of the Cache named i is
    db,          \* the Redis database every Cache connects to
    uuids,       \* how many uuid4() identifiers have been drawn
    inits,       \* how many Cache() constructions followed the first
    pc,          \* pc[p]: where caller p stands inside Cache.store
    frame,       \* frame[p]: the locals of caller p's invocation
    calls,       \* how many invocations of Cache.store have begun
    log,         \* log[c]: the c-th invocation of Cache.store: its receiver
                 \* and arguments, the number of constructions before it,
                 \* the invocations in progress when it began, how it ended
                 \* and the Redis commands it sent; the finished invocations
                 \* are dropped when the database is flushed
    pushed_in,   \* the invocation that pushed each entry of the inputs list
    pushed_out,  \* the invocation that pushed each entry of the outputs list
    rpc,         \* where replay stands
    rframe,      \* the locals of replay
    stdout,      \* what the latest replay call printed, line by line
    rlast,       \* how the latest replay call ended, how many reads it made
    ret          \* what the latest get / get_str / get_int call gave its caller

\* stdout, rlast and ret hold what the client sees of a replay or get call:
\* they are cleared when the client goes on (Continue).

vars == <<inst, db, uuids, inits, pc, frame, calls, log, pushed_in, pushed_out,
          rpc, rframe, stdout, rlast, ret>>

NoFrame  == [self |-> "a", args |-> <<>>, data |-> PyNone, output |-> PyNone,
             call |-> 0]
NoReplay == [name |-> <<>>, count |-> 0, inputs |-> <<>>, outputs |-> <<>>]
NoFn     == [kind |-> "None", self |-> "a", name |-> "store"]
NoLast   == [fn |-> NoFn, status |-> "none", reads |-> 0]
NoRet    == [function |-> "None", key |-> <<>>, status |-> "none",
             value |-> PyNone]

\* isinstance(self._redis, redis.Redis)
IsRedis(i) == inst[i] = "Redis"

\* The wrapped operation, the SET of Cache.store, either completes or raises
\* (the connection is lost); the commands of the decorators and the reads of
\* replay and get are taken to complete.
Replies == {"ok", "error"}

Init ==
    /\ inst = [i \in Insts |-> IF i = "a" THEN "Redis" ELSE "unset"]
    /\ db = EmptyDb
    /\ uuids = 0
    /\ inits = 0
    /\ pc = [p \in Procs |-> "idle"]
    /\ frame = [p \in Procs |-> NoFrame]
    /\ calls = 0
    /\ log = EmptyDb
    /\ pushed_in = <<>>
    /\ pushed_out = <<>>
    /\ rpc = "idle"
    /\ rframe = NoReplay
    /\ stdout = <<>>
    /\ rlast = NoLast
    /\ ret = NoRet

\* ------------------------------------------------------------ Cache.store
\* The stages control passes through in one invocation of the decorated
\* store: call_history is the outer decorator, count_calls the inner one.
\* The decorators stacked the other way round: count_calls outside.
StagesCountOutside == <<"count", "history_pre", "store", "history_post">>

\* The counter incremented after the wrapped method instead of before it.
StagesCountAfter == <<"history_pre", "store", "count", "history_post">>

Stages == <<"history_pre", "count", "store", "history_post">>

After(stage) == Stages[(CHOOSE k \in 1..Len(Stages) : Stages[k] = stage) + 1]

\* The invocation of caller p ends: with `result` returned, or with the
\* exception propagating to the caller.
Ends(p, status, result, cmds) ==
    /\ pc' = [pc EXCEPT ![p] = "idle"]
    /\ frame' = [frame EXCEPT ![p] = NoFrame]
    /\ log' = [log EXCEPT ![frame[p].call] =
                  [@ EXCEPT !.status = status, !.result = result,
                            !.cmds = @ \o cmds]]

\* The invocation of caller p goes on to its next stage, having issued `cmds`.
GoesOn(p, cmds) ==
    /\ pc' = [pc EXCEPT ![p] = After(pc[p])]
    /\ log' = [log EXCEPT ![frame[p].call] = [@ EXCEPT !.cmds = @ \o cmds]]

\* A client calls store on the Cache named i, in the form f: control enters
\* call_history's invoker. At most `bound` invocations begin.
StoreCall(p, i, f, bound) ==
    /\ pc[p] = "idle"
    /\ inst[i] # "unset"
    /\ calls < bound
    /\ calls' = calls + 1
    /\ frame' = [frame EXCEPT ![p] =
                    [self |-> i, args |-> f.args, data |-> f.data,
                     output |-> PyNone, call |-> calls + 1]]
    /\ log' = ((calls + 1) :> [self |-> i, args |-> f.args, data |-> f.data,
                               era |-> inits,
                               during |-> {c \in DOMAIN log :
                                             log[c].status = "running"},
                               status |-> "running",
                               result |-> PyNone, cmds |-> <<>>]) @@ log
    /\ pc' = [pc EXCEPT ![p] = Stages[1]]
    /\ UNCHANGED <<inst, db, uuids, inits, pushed_in, pushed_out, rpc, rframe,
                   stdout, rlast, ret>>

\* A call_history whose inputs list is named after the Cache object as well.
HistoryPrePerInstance(p) ==
    /\ pc[p] = "history_pre"
    /\ IF IsRedis(frame[p].self)
       THEN /\ db' = RedisRpush(db,
                        InputKey(QualName("store") \o
                                 (IF frame[p].self = "a" THEN <<64, 97>>
                                                         ELSE <<64, 98>>)),
                        Encode(PyStr(StrArgs(frame[p].args))))
            /\ pushed_in' = Append(pushed_in, frame[p].call)
            /\ GoesOn(p, <<"rpush_inputs">>)
       ELSE /\ GoesOn(p, <<>>)
            /\ UNCHANGED <<db, pushed_in>>
    /\ UNCHANGED <<inst, uuids, inits, frame, calls, pushed_out, rpc, rframe,
                   stdout, rlast, ret>>

\* call_history.invoker up to the call of the wrapped method: the rendered
\* positional arguments are pushed on the inputs list.
HistoryPre(p) ==
    /\ pc[p] = "history_pre"
    /\ IF IsRedis(frame[p].self)
       THEN /\ db' = RedisRpush(db, InputKey(QualName("store")),
                                Encode(PyStr(StrArgs(frame[p].args))))
            /\ pushed_in' = Append(pushed_in, frame[p].call)
            /\ GoesOn(p, <<"rpush_inputs">>)
       ELSE /\ GoesOn(p, <<>>)
            /\ UNCHANGED <<db, pushed_in>>
    /\ UNCHANGED <<inst, uuids, inits, frame, calls, pushed_out, rpc, rframe,
                   stdout, rlast, ret>>

\* A counter kept by a read and a later write: the value written is one more
\* than the number of invocations that had ended when it was read.
CountCallsLostUpdate(p) ==
    /\ pc[p] = "count"
    /\ IF IsRedis(frame[p].self)
       THEN /\ db' = RedisSet(db, QualName("store"),
                              IntStr(Cardinality({c \in DOMAIN log :
                                         log[c].status # "running"}) + 1))
            /\ GoesOn(p, <<"incr">>)
       ELSE /\ GoesOn(p, <<>>)
            /\ UNCHANGED db
    /\ UNCHANGED <<inst, uuids, inits, frame, calls, pushed_in, pushed_out, rpc,
                   rframe, stdout, rlast, ret>>

\* A count_calls that increments without looking at the handle.
CountCallsUnguarded(p) ==
    /\ pc[p] = "count"
    /\ db' = RedisIncr(db, QualName("store"))
    /\ GoesOn(p, <<"incr">>)
    /\ UNCHANGED <<inst, uuids, inits, frame, calls, pushed_in, pushed_out, rpc,
                   rframe, stdout, rlast, ret>>

\* count_calls.invoker up to the call of the wrapped method: the counter at
\* the method's qualified name is incremented.
CountCalls(p) ==
    /\ pc[p] = "count"
    /\ IF IsRedis(frame[p].self)
       THEN /\ db' = RedisIncr(db, QualName("store"))
            /\ GoesOn(p, <<"incr">>)
       ELSE /\ GoesOn(p, <<>>)
            /\ UNCHANGED db
    /\ UNCHANGED <<inst, uuids, inits, frame, calls, pushed_in, pushed_out, rpc,
                   rframe, stdout, rlast, ret>>

\* The body of Cache.store: a fresh key is drawn and the value is set under
\* it. With self._redis = None the attribute lookup of set raises.
RawStore(p) ==
    /\ pc[p] = "store"
    /\ uuids' = uuids + 1
    /\ LET data_key == PyStr(UuidStr(uuids + 1))
       IN  IF IsRedis(frame[p].self)
           THEN \E reply \in Replies :
                  IF reply = "ok"
                  THEN /\ db' = RedisSet(db, Encode(data_key),
                                         Encode(frame[p].data))
                       /\ frame' = [frame EXCEPT ![p].output = data_key]
                       /\ GoesOn(p, <<"set">>)
                  ELSE /\ Ends(p, "raised", PyNone, <<"set">>)
                       /\ UNCHANGED db
           ELSE /\ Ends(p, "raised", PyNone, <<>>)
                /\ UNCHANGED db
    /\ UNCHANGED <<inst, inits, calls, pushed_in, pushed_out, rpc, rframe,
                   stdout, rlast, ret>>

\* The output pushed at the head of the outputs list (LPUSH) instead of its end.
HistoryPostAtHead(p) ==
    /\ pc[p] = "history_post"
    /\ IF inst[frame[p].self] = "Redis"
       THEN /\ db' = LET k == QualName("store") \o <<58, 111, 117, 116, 112, 117, 116, 115>>
                         b == Encode(frame[p].output)
                     IN  IF k \in DOMAIN db
                         THEN [db EXCEPT ![k] = [t |-> "list", v |-> <<b>> \o db[k].v]]
                         ELSE (k :> [t |-> "list", v |-> <<b>>]) @@ db
            /\ pushed_out' = <<frame[p].call>> \o pushed_out
            /\ Ends(p, "returned", frame[p].output, <<"rpush_outputs">>)
       ELSE /\ Ends(p, "returned", frame[p].output, <<>>)
            /\ UNCHANGED <<db, pushed_out>>
    /\ UNCHANGED <<inst, uuids, inits, calls, pushed_in, rpc, rframe, stdout,
                   rlast, ret>>

\* call_history.invoker after the wrapped method returned: the output is
\* pushed on the outputs list and returned.
HistoryPost(p) ==
    /\ pc[p] = "history_post"
    /\ IF IsRedis(frame[p].self)
       THEN /\ db' = RedisRpush(db, OutputKey(QualName("store")),
                                Encode(frame[p].output))
            /\ pushed_out' = Append(pushed_out, frame[p].call)
            /\ Ends(p, "returned", frame[p].output, <<"rpush_outputs">>)
       ELSE /\ Ends(p, "returned", frame[p].output, <<>>)
            /\ UNCHANGED <<db, pushed_out>>
    /\ UNCHANGED <<inst, uuids, inits, calls, pushed_in, rpc, rframe, stdout,
                   rlast, ret>>

\* ------------------------------------------------------- Cache.__init__
\* `i = Cache()`: a connection is made and the database is flushed.
Construct(i) ==
    /\ inits < MaxInits
    /\ \A p \in Procs : pc[p] # "idle" => frame[p].self # i
    /\ inits' = inits + 1
    /\ inst' = [inst EXCEPT ![i] = "Redis"]
    /\ db' = RedisFlushdb(db)
    /\ pushed_in' = <<>>
    /\ pushed_out' = <<>>
    /\ UNCHANGED <<rpc, rframe, stdout, rlast, ret>>
    /\ log' = [c \in {x \in DOMAIN log : log[x].status = "running"} |-> log[c]]
    /\ UNCHANGED <<uuids, pc, frame, calls>>

\* A client replaces the store handle of the Cache named i: `i._redis = None`.
SetRedisNone(i) ==
    /\ inst[i] = "Redis"
    /\ inst' = [inst EXCEPT ![i] = "None"]
    /\ UNCHANGED <<db, uuids, inits, pc, frame, calls, log, pushed_in, pushed_out,
                   rpc, rframe, stdout, rlast, ret>>

\* ----------------------------------------------------------------- replay
\* '{} was called {} times:'.format(name, count)
HeaderLine(name, count) ==
    name \o <<32, 119, 97, 115, 32, 99, 97, 108, 108, 101, 100, 32>>
         \o Str(PyInt(count)) \o <<32, 116, 105, 109, 101, 115, 58>>

\* '{}(*{}) -> {}'.format(name, input, output)
CallLine(name, input, output) ==
    name \o <<40, 42>> \o Str(input) \o <<41, 32, 45, 62, 32>> \o Str(output)

\* A pairing that walks the second sequence from its end.
ZipFromEnd(xs, ys) ==
    [k \in 1..(IF Len(xs) < Len(ys) THEN Len(xs) ELSE Len(ys)) |->
        <<xs[k], ys[Len(ys) + 1 - k]>>]

\* zip(inputs, outputs): the pairs up to the length of the shorter sequence.
Zip(xs, ys) ==
    [k \in 1..(IF Len(xs) < Len(ys) THEN Len(xs) ELSE Len(ys)) |-> <<xs[k], ys[k]>>]

RECURSIVE PrintCalls(_, _)
\* The loop of replay over the zipped pairs: the lines printed, and whether the
\* loop ran to its end (decoding an input may raise, which ends it).
PrintCalls(name, pairs) ==
    IF pairs = <<>> THEN [ok |-> TRUE, lines |-> <<>>]
    ELSE LET dec == Utf8Decode(Head(pairs)[1])
         IN  IF ~dec.ok THEN [ok |-> FALSE, lines |-> <<>>]
             ELSE LET line == CallLine(name, PyStr(dec.v), PyBytes(Head(pairs)[2]))
                      rest == PrintCalls(name, Tail(pairs))
                  IN  [ok |-> rest.ok, lines |-> <<line>> \o rest.lines]

\* What replay can be handed: None, the plain function Cache.store, a bound
\* method of an object that has no _redis attribute, or the bound method
\* store or get of the Cache named i.
FnRefs ==
    { [kind |-> "None", self |-> "a", name |-> "store"],
      [kind |-> "function", self |-> "a", name |-> "store"],
      [kind |-> "foreign", self |-> "a", name |-> "store"] }
    \cup [kind : {"method"}, self : Insts, name : {"store", "get"}]

\* Guards that do not look at the handle.
ResolvesWithoutHandleCheck(fn) == fn.kind \notin {"None", "function", "foreign"}

\* The guards of replay: fn is a bound method and the _redis of its object is
\* a Redis handle.
Resolves(fn) ==
    /\ fn.kind \notin {"None", "function"}
    /\ fn.kind # "foreign"
    /\ IsRedis(fn.self)

\* replay(fn) up to its first read.
ReplayCall(fn) ==
    /\ rpc = "idle"
    /\ fn.kind = "method" => inst[fn.self] # "unset"
    /\ IF Resolves(fn)
       THEN /\ rlast' = [fn |-> fn, status |-> "running", reads |-> 0]
            /\ rframe' = [NoReplay EXCEPT !.name = QualName(fn.name)]
            /\ rpc' = "exists"
       ELSE /\ rlast' = [fn |-> fn, status |-> "returned", reads |-> 0]
            /\ UNCHANGED <<rpc, rframe>>
    /\ UNCHANGED <<inst, db, uuids, inits, pc, frame, calls, log, pushed_in, pushed_out,
                   stdout, ret>>

\* replay raises: the exception of a conversion.
ReplayRaises(reads) ==
    /\ rpc' = "idle"
    /\ rframe' = NoReplay
    /\ rlast' = [rlast EXCEPT !.status = "raised", !.reads = reads]

\* replay: redis_store.exists(function_name); with no counter key the header
\* is printed with the count 0.
ReplayExists ==
    /\ rpc = "exists"
    /\ rlast' = [rlast EXCEPT !.reads = @ + 1]
    /\ IF RedisExists(db, rframe.name) # 0
       THEN /\ rpc' = "get"
            /\ UNCHANGED stdout
       ELSE /\ rpc' = "inputs"
            /\ stdout' = Append(stdout, HeaderLine(rframe.name, 0))
    /\ UNCHANGED <<inst, db, uuids, inits, pc, frame, calls, log, pushed_in, pushed_out,
                   rframe, ret>>

\* A replay that consumes the counter as it reads it (GETDEL).
ReplayGetConsumes ==
    /\ rpc = "get"
    /\ db' = [k \in DOMAIN db \ {rframe.name} |-> db[k]]
    /\ LET v == RedisGet(db, rframe.name)
           n == IF v.t = "None" THEN [ok |-> FALSE, v |-> 0] ELSE ParseInt(v.v)
       IN  IF ~n.ok THEN ReplayRaises(rlast.reads + 1) /\ UNCHANGED stdout
           ELSE /\ rlast' = [rlast EXCEPT !.reads = @ + 1]
                /\ rframe' = [rframe EXCEPT !.count = n.v]
                /\ stdout' = Append(stdout, HeaderLine(rframe.name, n.v))
                /\ rpc' = "inputs"
    /\ UNCHANGED <<inst, uuids, inits, pc, frame, calls, log, pushed_in, pushed_out,
                   ret>>

\* replay: int(redis_store.get(function_name)), then the header is printed.
ReplayGet ==
    /\ rpc = "get"
    /\ LET v == RedisGet(db, rframe.name)
           n == IF v.t = "None" THEN [ok |-> FALSE, v |-> 0] ELSE ParseInt(v.v)
       IN  IF ~n.ok THEN ReplayRaises(rlast.reads + 1) /\ UNCHANGED stdout
           ELSE /\ rlast' = [rlast EXCEPT !.reads = @ + 1]
                /\ rframe' = [rframe EXCEPT !.count = n.v]
                /\ stdout' = Append(stdout, HeaderLine(rframe.name, n.v))
                /\ rpc' = "inputs"
    /\ UNCHANGED <<inst, db, uuids, inits, pc, frame, calls, log, pushed_in, pushed_out,
                   ret>>

\* replay: redis_store.lrange(input_key, 0, -1)
ReplayInputs ==
    /\ rpc = "inputs"
    /\ rlast' = [rlast EXCEPT !.reads = @ + 1]
    /\ rframe' = [rframe EXCEPT !.inputs =
                     RedisLrange(db, InputKey(rframe.name), 0, -1)]
    /\ rpc' = "outputs"
    /\ UNCHANGED <<inst, db, uuids, inits, pc, frame, calls, log, pushed_in, pushed_out,
                   stdout, ret>>

\* replay: redis_store.lrange(output_key, 0, -1), then one line per zipped pair.
ReplayOutputs ==
    /\ rpc = "outputs"
    /\ LET outs    == RedisLrange(db, OutputKey(rframe.name), 0, -1)
           printed == PrintCalls(rframe.name, Zip(rframe.inputs, outs))
       IN  /\ stdout' = stdout \o printed.lines
           /\ rpc' = "idle"
           /\ rframe' = [rframe EXCEPT !.outputs = outs]
           /\ rlast' = [rlast EXCEPT
                           !.status = IF printed.ok THEN "returned" ELSE "raised",
                           !.reads = @ + 1]
    /\ UNCHANGED <<inst, db, uuids, inits, pc, frame, calls, log, pushed_in, pushed_out,
                   ret>>

\* ------------------------------------------------------------- Cache.get
\* The keys a client asks for: one it was handed by store, one never handed
\* out, and the counter's key.
AskedKeys == { UuidStr(n) : n \in 1..(uuids + 1) } \cup { QualName("store") }

Gives(function, key, status, value) ==
    ret' = [function |-> function, key |-> key, status |-> status,
            value |-> value]

\* A get decorated with count_calls: the counter at "Cache.get" is incremented.
GetCounted(i, key, function) ==
    /\ inst[i] # "unset"
    /\ IF ~IsRedis(i)
       THEN Gives(function, key, "raised", PyNone) /\ UNCHANGED db
       ELSE /\ db' = RedisIncr(db, QualName("get"))
            /\ Gives(function, key, "returned", RedisGet(db, Encode(PyStr(key))))
    /\ UNCHANGED <<inst, uuids, inits, pc, frame, calls, log, pushed_in, pushed_out,
                   rpc, rframe, stdout, rlast>>

\* get(key, function) on the Cache named i; function is None, the decoder of
\* get_str or the parser of get_int.
Get(i, key, function) ==
    /\ inst[i] # "unset"
    /\ IF ~IsRedis(i) THEN Gives(function, key, "raised", PyNone)
       ELSE LET data == RedisGet(db, Encode(PyStr(key)))
            IN  IF function = "None" THEN Gives(function, key, "returned", data)
                ELSE IF data.t = "None" THEN Gives(function, key, "raised", PyNone)
                ELSE IF function = "decode"
                THEN LET s == Utf8Decode(data.v)
                     IN  IF s.ok THEN Gives(function, key, "returned", PyStr(s.v))
                         ELSE Gives(function, key, "raised", PyNone)
                ELSE LET n == ParseInt(data.v)
                     IN  IF n.ok THEN Gives(function, key, "returned", PyInt(n.v))
                         ELSE Gives(function, key, "raised", PyNone)
    /\ UNCHANGED <<inst, db, uuids, inits, pc, frame, calls, log, pushed_in, pushed_out,
                   rpc, rframe, stdout, rlast>>

CacheGet(i, key)    == Get(i, key, "None")
CacheGetStr(i, key) == Get(i, key, "decode")
CacheGetInt(i, key) == Get(i, key, "int")

\* ---------------------------------------------------------- specifications
\* No call of store or replay is in progress.
Quiet == rpc = "idle" /\ \A p \in Procs : pc[p] = "idle"

\* The client holds the outcome of a finished replay or get call.
Holding == rpc = "idle" /\ (rlast # NoLast \/ ret # NoRet)

\* The client goes on to its next statement: what the call printed and
\* returned is behind it.
Continue ==
    /\ Holding
    /\ stdout' = <<>>
    /\ rlast' = NoLast
    /\ rframe' = NoReplay
    /\ ret' = NoRet
    /\ UNCHANGED <<inst, db, uuids, inits, pc, frame, calls, log, pushed_in,
                   pushed_out, rpc>>

\* The client is free to make its next call.
Ready == Quiet /\ ~Holding

\* The program as its clients use it: one caller, every call running to its
\* end before the next begins.
Next ==
    \/ Ready /\ \E i \in Insts, f \in CallForms : StoreCall(1, i, f, MaxCalls)
    \/ HistoryPre(1)
    \/ CountCalls(1)
    \/ RawStore(1)
    \/ HistoryPost(1)
    \/ Ready /\ \E i \in Insts : Construct(i)
    \/ Ready /\ \E i \in Insts : SetRedisNone(i)
    \/ Ready /\ \E fn \in FnRefs : ReplayCall(fn)
    \/ ReplayExists
    \/ ReplayGet
    \/ ReplayInputs
    \/ ReplayOutputs
    \/ Ready /\ \E i \in Insts, key \in AskedKeys : CacheGet(i, key)
    \/ Ready /\ \E i \in Insts, key \in AskedKeys : CacheGetStr(i, key)
    \/ Ready /\ \E i \in Insts, key \in AskedKeys : CacheGetInt(i, key)
    \/ Continue

Spec == Init /\ [][Next]_vars

\* Several callers of store at once: each Redis command is atomic, and the
\* commands of the invocations in progress interleave, with one another and
\* with the construction of further Cache objects.
\* The concurrent callers store text and numbers.
ConcForms == { f \in CallForms : f.data.t # "bytes" }
ConcNext ==
    \/ \E p \in Procs, i \in Insts, f \in ConcForms :
         StoreCall(p, i, f, MaxConcCalls)
    \/ \E p \in Procs : HistoryPre(p)
    \/ \E p \in Procs : CountCalls(p)
    \/ \E p \in Procs : RawStore(p)
    \/ \E p \in Procs : HistoryPost(p)
    \/ \E i \in Insts : Construct(i)
    \/ \E i \in Insts : SetRedisNone(i)

ConcSpec == Init /\ [][ConcNext]_vars

\* ================================================================ claims
\* What the store holds for the identity of Cache.store.
StoreName == QualName("store")
Counter ==
    IF StoreName \in DOMAIN db THEN ParseInt(db[StoreName].v).v ELSE 0
Inputs ==
    IF InputKey(StoreName) \in DOMAIN db THEN db[InputKey(StoreName)].v ELSE <<>>
Outputs ==
    IF OutputKey(StoreName) \in DOMAIN db THEN db[OutputKey(StoreName)].v ELSE <<>>

\* The invocations since the last flush, in call order.
Sorted(S) ==
    [k \in 1..Cardinality(S) |->
        CHOOSE x \in S : Cardinality({y \in S : y <= x}) = k]
Invocations == Sorted(DOMAIN log)
NumInvocations == Cardinality(DOMAIN log)
AllReturned == \A c \in DOMAIN log : log[c].status = "returned"
NoneInvalid == \A i \in Insts : inst[i] # "None"

IsPrefix(s, t) == Len(s) <= Len(t) /\ \A k \in 1..Len(s) : s[k] = t[k]

\* C1: after N sequential, successful calls of store on a freshly constructed
\* Cache, the counter at "Cache.store" is N and the inputs and outputs lists
\* each hold N entries, the k-th being the rendered arguments and the returned
\* key of the k-th call.
C1_CountsAndHistories ==
    (Quiet /\ AllReturned) =>
        /\ Counter = NumInvocations
        /\ Len(Inputs) = NumInvocations
        /\ Len(Outputs) = NumInvocations
        /\ \A k \in 1..NumInvocations :
              /\ Inputs[k] = Utf8Encode(StrArgs(log[Invocations[k]].args))
              /\ Outputs[k] = Utf8Encode(log[Invocations[k]].result.v)

\* Three successful calls, with a text, a byte string and a number in that
\* order: the counter reads 3 and the third input is "(42,)".
C1_ThreeMixedCalls ==
    /\ Quiet /\ AllReturned /\ NumInvocations = 3
    /\ log[Invocations[1]].data.t = "str"
    /\ log[Invocations[2]].data.t = "bytes"
    /\ log[Invocations[3]].data.t = "int"
    /\ db[StoreName].v = <<51>>
    /\ Inputs[3] = <<40, 52, 50, 44, 41>>
    /\ Len(Outputs) = 3

\* C2: the Redis commands of one invocation of store are sent in the order
\* RPUSH inputs, INCR counter, SET key, RPUSH outputs: what an invocation has
\* sent is always a prefix of that order, and an invocation that returned on a
\* Cache with a Redis handle has sent all four.
CommandOrder == <<"rpush_inputs", "incr", "set", "rpush_outputs">>
C2_CommandOrder ==
    \A c \in DOMAIN log :
        /\ IsPrefix(log[c].cmds, CommandOrder)
        /\ (log[c].status = "returned" /\ IsRedis(log[c].self))
              => log[c].cmds = CommandOrder

\* An invocation that began while another was in progress has returned, all
\* four commands sent in order.
C2_OverlappedCallDone ==
    \E c \in DOMAIN log :
        /\ log[c].during # {}
        /\ log[c].status = "returned"
        /\ log[c].cmds = CommandOrder

\* C3: the counter is incremented before the wrapped operation runs: from the
\* moment the body of store is reached, the counter counts this invocation,
\* and it still does after the SET failed; the failed invocation sent each
\* command once, retried nothing and handed its caller the exception.
C3_CountedBeforeWrapped ==
    NoneInvalid =>
        /\ pc[1] \in {"store", "history_post", "idle"} => Counter = NumInvocations
        /\ \A c \in DOMAIN log :
              log[c].status = "raised" =>
                  /\ log[c].cmds = <<"rpush_inputs", "incr", "set">>
                  /\ log[c].result = PyNone

\* A call whose SET failed, followed by a successful call: the counter reads 2.
C3_FailedCallCounted ==
    /\ Quiet /\ NoneInvalid /\ NumInvocations = 2
    /\ log[Invocations[1]].status = "raised"
    /\ log[Invocations[2]].status = "returned"
    /\ Counter = 2

\* The invocations since the last flush whose SET raised after their counter
\* increment.
FailedCounted ==
    {c \in DOMAIN log : log[c].status = "raised" /\ log[c].cmds # <<>>}

\* The single caller is inside an invocation whose counter increment is done
\* and whose output append is not.
InWindow ==
    /\ pc[1] \in {"store", "history_post"}
    /\ Len(log[frame[1].call].cmds) >= 2
    /\ log[frame[1].call].cmds[2] = "incr"

\* C4 as stated: inside the window between the counter increment and the
\* output append of an invocation, length(inputs) = length(outputs) = counter.
C4_WindowAllEqual ==
    (InWindow /\ FailedCounted = {}) =>
        /\ Len(Inputs) = Len(Outputs)
        /\ Len(Outputs) = Counter

\* C4, amended: inside that window of a sequential invocation the inputs list
\* is as long as the counter, and the outputs list is shorter: it lacks the
\* entry of this invocation and of every earlier invocation whose SET failed.
C4_WindowInputsEqualOutputsBehind ==
    InWindow =>
        /\ Len(Inputs) = Counter
        /\ Len(Outputs) = Counter - 1 - Cardinality(FailedCounted)

\* The second of two calls stands between its SET and its output append:
\* two inputs, counter 2, one output.
C4_SecondCallInWindow ==
    /\ InWindow /\ pc[1] = "history_post" /\ FailedCounted = {}
    /\ Len(Inputs) = 2 /\ Counter = 2 /\ Len(Outputs) = 1

\* C5: at every state where no call is in progress, every index of the outputs
\* list holds the result of the invocation whose arguments the inputs list
\* holds at that index.
C5_IndexAligned ==
    Quiet =>
        \A k \in 1..Len(pushed_out) :
            k <= Len(pushed_in) /\ pushed_in[k] = pushed_out[k]

\* C6: with concurrent callers the histories can be misaligned, and it is the
\* interleaving that misaligns them: when every invocation since the flush
\* ran on a Redis handle and none failed, an index that holds the input of one
\* invocation and the output of another holds those of two invocations each
\* of which was in progress at the same time as some other invocation (not
\* necessarily each other: a slow third caller shifts the outputs of two
\* callers that follow one another).
Overlapped(c, d) == c \in log[d].during \/ d \in log[c].during
Undisturbed ==
    /\ NoneInvalid
    /\ \A c \in DOMAIN log : log[c].status # "raised" /\ log[c].era = inits
Interleaved(c) == \E e \in DOMAIN log \ {c} : Overlapped(c, e)
C6_MisalignedOnlyByOverlap ==
    Undisturbed =>
        \A k \in 1..Len(pushed_out) :
            (k <= Len(pushed_in) /\ pushed_in[k] # pushed_out[k])
                => Interleaved(pushed_in[k]) /\ Interleaved(pushed_out[k])

\* Two invocations, both returned, no failure and no flush: index 1 holds the
\* arguments of one and the key returned by the other, and the text at
\* inputs[1] is not the rendering of the arguments of the invocation whose
\* key is at outputs[1].
C6_Misaligned ==
    /\ \A p \in Procs : pc[p] = "idle"
    /\ Undisturbed /\ AllReturned /\ NumInvocations = 2
    /\ Len(Inputs) = 2 /\ Len(Outputs) = 2
    /\ pushed_in[1] # pushed_out[1]
    /\ Outputs[1] = Utf8Encode(log[pushed_out[1]].result.v)
    /\ Inputs[1] # Utf8Encode(StrArgs(log[pushed_out[1]].args))

\* C7: get(key) with no transform, for a key that store returned since the
\* flush, gives the stored value in Redis' encoding (text as UTF-8, a number
\* as its decimal digits), whatever was stored after it.
C7_RoundTrip ==
    (ret.status = "returned" /\ ret.function = "None") =>
        \A c \in DOMAIN log :
            (log[c].status = "returned" /\ log[c].result = PyStr(ret.key))
                => ret.value = PyBytes(Encode(log[c].data))

\* store(42) returned the first key, two more values were stored, and get of
\* the first key gives b'42'.
C7_FirstKeyAfterThreeCalls ==
    /\ ret.status = "returned" /\ ret.function = "None"
    /\ NumInvocations = 3 /\ AllReturned
    /\ log[Invocations[1]].data = PyInt(42)
    /\ log[Invocations[1]].result = PyStr(ret.key)
    /\ log[Invocations[2]].data = PyStr(<<233>>)
    /\ ret.value = PyBytes(<<52, 50>>)

\* A replay call that passed its guards has run to its end.
ReplayDone == rpc = "idle" /\ rlast.status = "returned" /\ rlast.reads > 0
ReplayedName == QualName(rlast.fn.name)
ListAt(k) == IF k \in DOMAIN db THEN db[k].v ELSE <<>>
Min(a, b) == IF a < b THEN a ELSE b

\* C8: after its header replay prints min(length(inputs), length(outputs))
\* lines, the k-th made of inputs[k], decoded, and outputs[k]; after three
\* successful sequential calls of store these are three lines, the k-th with
\* the arguments and the key of the k-th call.
C8_ReplayLines ==
    ReplayDone =>
        LET ins  == ListAt(InputKey(ReplayedName))
            outs == ListAt(OutputKey(ReplayedName))
            n    == Min(Len(ins), Len(outs))
        IN  /\ Len(stdout) = 1 + n
            /\ \A k \in 1..n :
                  stdout[k + 1] =
                      ReplayedName \o <<40, 42>> \o Utf8Decode(ins[k]).v
                          \o <<41, 32, 45, 62, 32>> \o Repr(PyBytes(outs[k]))
            /\ (rlast.fn.name = "store" /\ AllReturned /\ NumInvocations = 3) =>
                  /\ Len(stdout) = 4
                  /\ \A k \in 1..3 :
                        stdout[k + 1] =
                            StoreName \o <<40, 42>>
                                \o StrArgs(log[Invocations[k]].args)
                                \o <<41, 32, 45, 62, 32>>
                                \o Repr(PyBytes(Utf8Encode(
                                       log[Invocations[k]].result.v)))

\* Three successful calls, the first with the text e-acute: replay printed four
\* lines, the second of them  Cache.store(*('e-acute',)) -> b'u1'.
C8_ThreeLines ==
    /\ ReplayDone /\ rlast.fn.name = "store"
    /\ AllReturned /\ NumInvocations = 3 /\ calls = 3
    /\ Len(stdout) = 4
    /\ stdout[2] = <<67, 97, 99, 104, 101, 46, 115, 116, 111, 114, 101, 40, 42,
                     40, 39, 233, 39, 44, 41, 41, 32, 45, 62, 32,
                     98, 39, 117, 49, 39>>

\* C9: the count in replay's header is the integer at the counter key of the
\* replayed method, 0 when there is no such key; with no call made the output
\* is the header with 0 and nothing else.
C9_HeaderCount ==
    ReplayDone =>
        LET count == IF ReplayedName \in DOMAIN db
                     THEN ParseInt(db[ReplayedName].v).v ELSE 0
        IN  /\ stdout[1] =
                  ReplayedName
                      \o <<32, 119, 97, 115, 32, 99, 97, 108, 108, 101, 100, 32>>
                      \o IntStr(count) \o <<32, 116, 105, 109, 101, 115, 58>>
            /\ (rlast.fn.name = "store" /\ NumInvocations > 0 /\ NoneInvalid)
                  => count = NumInvocations
            /\ (ReplayedName \notin DOMAIN db
                    /\ InputKey(ReplayedName) \notin DOMAIN db
                    /\ OutputKey(ReplayedName) \notin DOMAIN db)
                  => Len(stdout) = 1 /\ count = 0

\* Replay of store before any call: the one line printed is
\* "Cache.store was called 0 times:".
C9_ZeroCalls ==
    /\ ReplayDone /\ rlast.fn.name = "store" /\ calls = 0
    /\ stdout = << <<67, 97, 99, 104, 101, 46, 115, 116, 111, 114, 101,
                     32, 119, 97, 115, 32, 99, 97, 108, 108, 101, 100, 32,
                     48, 32, 116, 105, 109, 101, 115, 58>> >>

\* C10: replay of None, of a plain function, of a method of an object with no
\* _redis attribute, or of a method of a Cache whose _redis is no Redis handle
\* reads nothing from the store, prints nothing and returns.
C10_SilentNoOp ==
    (rpc = "idle" /\ rlast.status # "none"
        /\ (\/ rlast.fn.kind \in {"None", "function", "foreign"}
            \/ inst[rlast.fn.self] # "Redis")) =>
        /\ rlast.status = "returned"
        /\ rlast.reads = 0
        /\ stdout = <<>>

\* Two calls were recorded, the handle of the Cache was then replaced, and
\* replay of its store printed nothing and read nothing.
C10_InvalidHandleSilent ==
    /\ rpc = "idle" /\ rlast.status = "returned"
    /\ rlast.fn.kind = "method" /\ inst[rlast.fn.self] = "None"
    /\ Counter = 2 /\ Len(Inputs) = 2
    /\ rlast.reads = 0 /\ stdout = <<>>

\* C11: replay only reads: no step of replay, from its guards to its last
\* printed line, changes the database (the counter, the two lists, the stored
\* values), so the contents after a sequence of store calls are the same
\* wherever replay calls stand among them.
C11_ReplayReadOnly ==
    [][(rlast' # rlast /\ rlast' # NoLast) =>
          /\ db' = db
          /\ pushed_in' = pushed_in /\ pushed_out' = pushed_out]_vars

\* A replay of store ran its four reads to the end over a counter of 1, one
\* input, one output and one stored value, and they are all still there.
C11_ReplayedOverOneCall ==
    /\ rlast.status = "returned" /\ rlast.reads = 4 /\ Len(stdout) = 2
    /\ Counter = 1 /\ Len(Inputs) = 1 /\ Len(Outputs) = 1
    /\ Outputs[1] \in DOMAIN db

\* C12: the construction of a Cache leaves the database without any key,
\* whatever was stored before: no counter (it reads as 0), empty inputs and
\* outputs lists, no stored value.
C12_ConstructClears ==
    [][inits' # inits =>
          /\ DOMAIN db' = {}
          /\ Counter' = 0 /\ Inputs' = <<>> /\ Outputs' = <<>>
          /\ RedisExists(db', StoreName) = 0]_vars

\* Two calls of store reached the body of store, then a Cache was constructed:
\* the database is empty.
C12_ClearedAfterTwoCalls ==
    /\ inits = 1 /\ calls = 2 /\ uuids = 2 /\ DOMAIN log = {} /\ NoneInvalid
    /\ DOMAIN db = {} /\ Quiet

C14_ReadsUninstrumented ==
    [][(ret' # ret /\ ret' # NoRet) =>
          /\ db' = db
          /\ pushed_in' = pushed_in /\ pushed_out' = pushed_out]_vars

\* get_int raised on the stored text "\u00e9", the counter reading 1.
C14_GetIntRaised ==
    /\ ret.function = "int" /\ ret.status = "raised"
    /\ Encode(PyStr(ret.key)) \in DOMAIN db
    /\ db[Encode(PyStr(ret.key))].v = <<195, 169>>
    /\ Counter = 1

\* C15: without a construction the counter never goes down and its key is
\* never deleted: the INCR of a store call on a Redis handle adds exactly 1
\* (creating the counter at 1 on the first call), and every other step of
\* store, get and replay leaves the counter as it is.
C15_CounterMonotone ==
    [][inits' = inits =>
          /\ Counter' >= Counter
          /\ StoreName \in DOMAIN db => StoreName \in DOMAIN db'
          /\ IF pc[1] = "count" /\ IsRedis(frame[1].self)
             THEN /\ Counter' = Counter + 1
                  /\ StoreName \notin DOMAIN db => db'[StoreName].v = <<49>>
             ELSE Counter' = Counter]_vars

\* Three calls counted and no construction; the client then read the counter
\* key with get, which gave b"3".
C15_ThreeCounted ==
    /\ inits = 0 /\ Quiet /\ Counter = 3
    /\ ret.status = "returned" /\ ret.key = StoreName
    /\ ret.value = PyBytes(<<51>>)

\* No Cache was constructed while an invocation now on record was in progress.
NoFlushInFlight == \A c \in DOMAIN log : log[c].era = inits

\* C16: when the invocations of concurrent callers since the flush have all
\* returned, no construction among them, the counter equals their number and
\* so does the length of each list, however their commands interleaved and
\* even when the lists are misaligned. The invocations are those of store on
\* a Cache that keeps its Redis handle: the steps that interleave are the
\* commands of the invocations, not a client's assignment to _redis (after
\* which an invocation past its SET returns without its output append).
HandlesValid == \A c \in DOMAIN log : IsRedis(log[c].self)
C16_CompletedCallsCounted ==
    (NoFlushInFlight /\ HandlesValid /\ AllReturned
       /\ \A p \in Procs : pc[p] = "idle") =>
        /\ Counter = NumInvocations
        /\ Len(Inputs) = NumInvocations
        /\ Len(Outputs) = NumInvocations

\* Three invocations, some of them overlapping, have all returned: counter 3,
\* three inputs, three outputs, and the lists are misaligned.
C16_ThreeOverlappedDone ==
    /\ NoFlushInFlight /\ HandlesValid /\ AllReturned
    /\ \A p \in Procs : pc[p] = "idle"
    /\ NumInvocations = 3 /\ Counter = 3
    /\ Len(Inputs) = 3 /\ Len(Outputs) = 3
    /\ pushed_in # pushed_out

\* C17: as long as no Cache was constructed while an invocation was in
\* progress, in every state, in the middle of invocations too, with
\* interleaved callers and failed SETs:
\* length(outputs) <= counter <= length(inputs).
C17_OutputsCounterInputs ==
    NoFlushInFlight =>
        /\ Len(Outputs) <= Counter
        /\ Counter <= Len(Inputs)

\* One invocation's SET failed, another is between its input append and its
\* counter increment while a third returned: both inequalities are strict.
C17_StrictBothWays ==
    /\ NoFlushInFlight
    /\ \E c \in DOMAIN log :
          log[c].status = "raised" /\ log[c].cmds = <<"rpush_inputs", "incr", "set">>
    /\ \E c \in DOMAIN log : log[c].status = "returned"
    /\ \E p \in Procs : pc[p] = "count"
    /\ 0 < Len(Outputs)
    /\ Len(Outputs) < Counter /\ Counter < Len(Inputs)

\* C18: one invocation since the flush failed at its SET, the calls are
\* sequential: its input and its count stay, so that at rest
\* length(inputs) = counter = length(outputs) + 1; from the index of the
\* failed call on, the output at an index is the key of a later invocation
\* than the one whose arguments are at that index; and replay prints a header
\* count greater than the number of lines that follow, each of those lines
\* pairing such an input and output.
C18_FailedCallNeverRepaired ==
    (pc[1] = "idle" /\ Cardinality(FailedCounted) = 1) =>
        LET f   == CHOOSE c \in FailedCounted : TRUE
            idx == CHOOSE k \in 1..Len(pushed_in) : pushed_in[k] = f
        IN  /\ f \in {pushed_in[k] : k \in 1..Len(pushed_in)}
            /\ Len(Inputs) = Counter
            /\ Counter = Len(Outputs) + 1
            /\ \A k \in idx..Len(pushed_out) :
                  /\ pushed_out[k] > pushed_in[k]
                  /\ Inputs[k] = Utf8Encode(StrArgs(log[pushed_in[k]].args))
                  /\ Outputs[k] = Utf8Encode(log[pushed_out[k]].result.v)
            /\ (ReplayDone /\ rlast.fn.name = "store") =>
                  /\ stdout[1] = HeaderLine(StoreName, Counter)
                  /\ Len(stdout) - 1 = Len(Outputs)
                  /\ Counter > Len(stdout) - 1
                  /\ \A k \in idx..Len(Outputs) :
                        stdout[k + 1] =
                            CallLine(StoreName,
                                     PyStr(StrArgs(log[pushed_in[k]].args)),
                                     PyBytes(Utf8Encode(
                                         log[pushed_out[k]].result.v)))

\* The first of three calls failed at its SET, the next two returned, and
\* replay printed "Cache.store was called 3 times:" and two lines.
C18_ReplayAfterFailure ==
    /\ ReplayDone /\ rlast.fn.name = "store"
    /\ NumInvocations = 3 /\ FailedCounted = {Invocations[1]}
    /\ log[Invocations[2]].status = "returned"
    /\ log[Invocations[3]].status = "returned"
    /\ Len(stdout) = 3
    /\ stdout[1] = HeaderLine(StoreName, 3)

\* C19: the keys are named after the method, not after the object: the calls
\* of store through every Cache since the last construction are counted in
\* one counter and listed in one pair of lists, and replay of the store of
\* any Cache prints them all.
C19_SharedAcrossInstances ==
    (Quiet /\ AllReturned) =>
        /\ Counter = NumInvocations
        /\ \A i \in Insts : \A c \in DOMAIN log :
              log[c].self = i =>
                  \E k \in 1..Len(Inputs) :
                      /\ k <= Len(Outputs)
                      /\ pushed_in[k] = c /\ pushed_out[k] = c
                      /\ Inputs[k] = Utf8Encode(StrArgs(log[c].args))
                      /\ Outputs[k] = Utf8Encode(log[c].result.v)
        /\ (ReplayDone /\ rlast.fn.name = "store") =>
              /\ stdout[1] = HeaderLine(StoreName, NumInvocations)
              /\ Len(stdout) = NumInvocations + 1
              /\ \A k \in 1..NumInvocations :
                    stdout[k + 1] =
                        CallLine(StoreName,
                                 PyStr(StrArgs(log[Invocations[k]].args)),
                                 PyBytes(Utf8Encode(
                                     log[Invocations[k]].result.v)))

\* After the construction of b, one call through a and one through b; replay
\* of a.store printed a header with 2 and both calls.
C19_ReplayOfOneShowsBoth ==
    /\ ReplayDone /\ rlast.fn = [kind |-> "method", self |-> "a", name |-> "store"]
    /\ AllReturned /\ NumInvocations = 2
    /\ {log[c].self : c \in DOMAIN log} = {"a", "b"}
    /\ Len(stdout) = 3
    /\ stdout[1] = HeaderLine(StoreName, 2)

\* C20: a Cache constructed while an invocation of store on another Cache is
\* in progress flushes the database under it, and the rest of the invocation
\* runs on the flushed database. This is the only way the counter comes to
\* exceed the length of the inputs list, the outputs list to be longer than
\* the inputs list, or a returned key to have no stored value while its
\* invocation is still on record.
C20_OnlyFlushInFlight ==
    /\ (Counter > Len(Inputs) \/ Len(Outputs) > Len(Inputs)) => ~NoFlushInFlight
    /\ \A c \in DOMAIN log :
          (log[c].status = "returned" /\ Encode(log[c].result) \notin DOMAIN db)
              => log[c].era # inits

\* b was constructed while an invocation on a stood after its SET and another
\* after its input append: the counter reads 1 with no input, the outputs
\* list holds one key with no input, and that key, returned to the caller,
\* has no stored value.
C20_FlushedUnderCall ==
    /\ Counter > Len(Inputs)
    /\ Len(Outputs) > Len(Inputs)
    /\ \E c \in DOMAIN log :
          /\ log[c].status = "returned" /\ log[c].self = "a"
          /\ log[c].era # inits
          /\ log[c].cmds = CommandOrder
          /\ Encode(log[c].result) \notin DOMAIN db
          /\ Outputs = <<Encode(log[c].result)>>
====
